---------------------------- MODULE Spec2Model ----------------------------
(***************************************************************************)
(* A model of libtiled's ObjectGroup (src/src/libtiled/objectgroup.cpp):   *)
(* the owned list of MapObjects, the name sort run by insertObject         *)
(* (sort / introSort / heapSort / heapify / siftDown / partition /         *)
(* reorder), moveObjects, offsetObjects, mergedWith and the draw-order     *)
(* codec.                                                                  *)
(*                                                                         *)
(* A MapObject* is a natural number (its address).  C++                    *)
(* indexes are 0-based and are kept so: At(v, i) is v[i].  QString is a    *)
(* sequence of character codes.                                            *)
(***************************************************************************)
EXTENDS Integers, Sequences, FiniteSets, TLC

VARIABLES
    debug,        \* TRUE: Q_ASSERT is compiled in (QT_NO_DEBUG not defined)
    name,         \* MapObject::name() of every object
    mMap,         \* per ObjectGroup: Layer::mMap is set
    nextObjectId, \* Map::mNextObjectId of the one map
    objectId,     \* MapObject::id() of every object
    mObjects,     \* per ObjectGroup: the QList<MapObject*> mObjects
    objectGroup,  \* MapObject::objectGroup() of every object, NoGroup = nullptr
    status,       \* "idle" (between calls), "sorting", "crashed", "hung", "undefined"
    call,         \* the call being executed or last returned, with its arguments
    vec,          \* sort's QVector<MapObject*> vec
    stack,        \* the pending calls of introSort / heapSort, innermost first
    p,            \* introSort's local p, the last value partition returned
    misuse,       \* a call has broken the caller's ownership contract
    position,     \* MapObject::position() of every object
    mDrawOrder,   \* a DrawOrder value handed to / returned by the codec
    text          \* a QString handed to / returned by the codec

vars == <<debug, name, mMap, nextObjectId, objectId, mObjects, objectGroup,
          status, call, vec, stack, p, misuse, position, mDrawOrder, text>>

\* ------------------------------------------------------------------ bounds

\* Objects the caller constructs (addresses 1..MaxObjects).
MaxObjects == 3
\* Of these, the objects the caller of Spec moves between the two groups.
MaxShared == 2
\* Addresses left for the clones made by mergedWith.
MaxClones == 3
\* Iterations of heapSort's loop followed below end = 0 before end saturates.
HeapUnderrun == 1

Objects == 1..MaxObjects
Clones == (MaxObjects + 1)..(MaxObjects + MaxClones)
Addresses == Objects \cup Clones
NoGroup == "nullptr"
Groups == {"g1", "g2"}
Merged == "merged"
AllGroups == Groups \cup {Merged}

\* ---------------------------------------------------------------- QString

\* "", "a", "A", "B": empty, equal, differing only by case, different.
NameSet == {<<>>, <<97>>, <<65>>, <<66>>}
\* "a", "B"
ShortNames == {<<97>>, <<66>>}

\* QChar case folding, on the ASCII letters.
FoldCase(c) == IF c >= 65 /\ c <= 90 THEN c + 32 ELSE c

Sign(x) == IF x < 0 THEN -1 ELSE IF x > 0 THEN 1 ELSE 0

\* QString::compare(s1, s2, Qt::CaseInsensitive): negative, zero or positive.
RECURSIVE CompareFrom(_, _, _)
CompareFrom(s1, s2, i) ==
    IF i > Len(s1) /\ i > Len(s2) THEN 0
    ELSE IF i > Len(s1) THEN -1
    ELSE IF i > Len(s2) THEN 1
    ELSE IF FoldCase(s1[i]) # FoldCase(s2[i])
         THEN Sign(FoldCase(s1[i]) - FoldCase(s2[i]))
         ELSE CompareFrom(s1, s2, i + 1)

Compare(s1, s2) == CompareFrom(s1, s2, 1)

\* ---------------------------------------------------------------- QVector

At(v, i) == v[i + 1]
InRange(v, i) == i >= 0 /\ i < Len(v)
Put(v, i, x) == [v EXCEPT ![i + 1] = x]
\* vec[i] = x where i may lie outside the vector: in a build without
\* Q_ASSERT the store lands outside the elements and none of them changes.
Store(v, i, x) == IF InRange(v, i) THEN Put(v, i, x) ELSE v
\* QVector::remove(i)
RemoveAt(v, i) == SubSeq(v, 1, i) \o SubSeq(v, i + 2, Len(v))
\* QVector::insert(i, x) and QList::insert(i, x), 0 <= i <= size
InsertAt(v, i, x) == SubSeq(v, 1, i) \o <<x>> \o SubSeq(v, i + 1, Len(v))
Range(v) == {v[i] : i \in 1..Len(v)}

\* C++ integer division, truncating toward zero (b > 0).
CDiv(a, b) == IF a >= 0 THEN a \div b ELSE -((-a) \div b)

\* floor(log2(n)) for n >= 1
RECURSIVE Log2Floor(_)
Log2Floor(n) == IF n <= 1 THEN 0 ELSE 1 + Log2Floor(n \div 2)

\* MapObject::equals, as the specification gives it: the same object.
equals(a, b) == a = b

\* ------------------------------------------------------------- the sort

\* The result of a call that may not return: st is "ok" (it returned),
\* "hung" (it loops for ever) or "crashed" (it aborted).
Returned(v) == [st |-> "ok", vec |-> v]
Hung(v) == [st |-> "hung", vec |-> v]

\* One iteration of siftDown's loop from root: whether it returns, and the
\* root and vector it leaves.  vec[a] < vec[b] compares the two pointers.
siftDownStep(v, root, siftEnd) ==
    LET child == root * 2 + 1
        swap == root
    IN  IF At(v, swap) < At(v, child)
        THEN [ret |-> FALSE, root |-> root, vec |-> v]      \* swap = child
        ELSE IF child + 1 <= siftEnd /\ At(v, swap) < At(v, child + 1)
        THEN [ret |-> FALSE, root |-> root, vec |-> v]      \* swap = child + 1
        ELSE IF swap = root
        THEN [ret |-> TRUE, root |-> root, vec |-> v]
        ELSE [ret |-> FALSE, root |-> swap,
              vec |-> Put(Put(v, root, At(v, swap)), swap, At(v, root))]

\* siftDown(vec, siftBegin, siftEnd), entered with root = siftBegin.  An
\* iteration that neither returns nor changes root or vec repeats for ever.
RECURSIVE siftDownLoop(_, _, _)
siftDownLoop(v, root, siftEnd) ==
    IF ~(root * 2 + 1 <= siftEnd) THEN Returned(v)
    ELSE LET s == siftDownStep(v, root, siftEnd)
         IN  IF s.ret THEN Returned(s.vec)
             ELSE IF s.root = root /\ s.vec = v THEN Hung(v)
             ELSE siftDownLoop(s.vec, s.root, siftEnd)

siftDown(v, siftBegin, siftEnd) == siftDownLoop(v, siftBegin, siftEnd)

\* heapify's loop, from the given start.
RECURSIVE heapifyLoop(_, _, _, _)
heapifyLoop(v, begin, end, start) ==
    IF ~(start >= begin) THEN Returned(v)
    ELSE LET s == siftDown(v, begin, end - 1)
         IN  IF s.st # "ok" THEN s
             ELSE heapifyLoop(s.vec, begin, end, start - 1)

heapify(v, begin, end) == heapifyLoop(v, begin, end, begin + CDiv(end - 2, 2))

\* reorder's first loop: the first i in [i, end) with vec[i]->equals(pivot),
\* or -1.
RECURSIVE reorderFind(_, _, _, _)
reorderFind(v, pivot, i, end) ==
    IF ~(i < end) THEN -1
    ELSE IF equals(At(v, i), pivot) THEN i
    ELSE reorderFind(v, pivot, i + 1, end)

\* reorder's second loop: newVec.push_front(vec[i]) for i in [i, begin).
RECURSIVE reorderPrefix(_, _, _, _)
reorderPrefix(v, newVec, i, begin) ==
    IF ~(i < begin) THEN newVec
    ELSE reorderPrefix(v, <<At(v, i)>> \o newVec, i + 1, begin)

\* reorder's third loop over [i, end): an element the pivot's name compares
\* >= to goes in at index begin and moves pivotLocation, another is appended.
RECURSIVE reorderScan(_, _, _, _, _, _, _)
reorderScan(v, newVec, pivotLocation, checkString, begin, i, end) ==
    IF ~(i < end) THEN [vec |-> newVec, p |-> pivotLocation]
    ELSE IF Compare(checkString, name[At(v, i)]) >= 0
    THEN reorderScan(v, InsertAt(newVec, begin, At(v, i)), pivotLocation + 1,
                     checkString, begin, i + 1, end)
    ELSE reorderScan(v, Append(newVec, At(v, i)), pivotLocation,
                     checkString, begin, i + 1, end)

\* reorder's last loop: newVec.append(vec[i]) for i in [i, vec.size()).
RECURSIVE reorderSuffix(_, _, _)
reorderSuffix(v, newVec, i) ==
    IF ~(i < Len(v)) THEN newVec
    ELSE reorderSuffix(v, Append(newVec, At(v, i)), i + 1)

\* reorder(vec, pivot, begin, end): the rebuilt vector and the value returned.
reorder(v, pivot, begin, end) ==
    LET found == reorderFind(v, pivot, begin, end)
        v1 == IF found # -1 THEN RemoveAt(v, found) ELSE v
        end1 == IF found # -1 THEN end - 1 ELSE end
        pre == reorderPrefix(v1, <<pivot>>, 0, begin)
        mid == reorderScan(v1, pre, begin, name[pivot], begin, begin, end1)
    IN  [vec |-> reorderSuffix(v1, mid.vec, end1), p |-> mid.p, pivot |-> pivot]

\* What vec[i] reads: the element, or for i outside the vector what lies
\* there.
Read(v, i, junk) == IF InRange(v, i) THEN At(v, i) ELSE junk[i]

\* partition(vec, begin, end), reading junk outside the vector.
partitionWith(v, begin, end, junk) ==
    LET half == begin + CDiv(end - begin, 2)
        size == Len(v)
        first == Read(v, begin, junk)
        last == Read(v, end - 1, junk)
        middle == Read(v, half, junk)
        start == name[first]
        midway == name[middle]
        finish == name[last]
    IN  IF Compare(start, finish) >= 0
        THEN IF Compare(start, midway) >= 0
             THEN IF Compare(midway, finish) >= 0
                  THEN reorder(Store(Store(v, 0, last), size - 1, first),
                               middle, begin, end)
                  ELSE reorder(Store(Store(Store(v, 0, middle), half, last),
                                     size - 1, first),
                               last, begin, end)
             ELSE reorder(Store(Store(Store(v, 0, last), half, first),
                                size - 1, middle),
                          first, begin, end)
        ELSE IF Compare(start, midway) <= 0
             THEN IF Compare(midway, finish) >= 0
                  THEN reorder(Store(Store(v, half, last), size - 1, middle),
                               last, begin, end)
                  ELSE reorder(v, middle, begin, end)
             ELSE reorder(Store(Store(v, 0, middle), half, first),
                          first, begin, end)

\* The indexes partition reads that lie outside the vector.
partitionOutside(v, begin, end) ==
    {i \in {begin, end - 1, begin + CDiv(end - begin, 2)} : ~InRange(v, i)}

\* Every way a call of partition can end.  A read outside the vector aborts
\* on QVector's Q_ASSERT in a debug build; without it the read is undefined
\* behaviour: the program crashes on the pointer it got, or got the address
\* of some object and goes on.
partition(v, begin, end) ==
    LET outside == partitionOutside(v, begin, end)
    IN  IF outside = {}
        THEN {[st |-> "ok"] @@ partitionWith(v, begin, end, <<>>)}
        ELSE {[st |-> "crashed", vec |-> v, p |-> 0, pivot |-> 0]}
             \cup (IF debug THEN {}
                   ELSE {[st |-> "ok"] @@ partitionWith(v, begin, end, junk) :
                            junk \in [outside -> Objects]})

\* ------------------------------------------------- ObjectGroup, MapObject

\* A pending call of introSort (op "introSort") or of heapSort (op
\* "heapSortCall"), or a call of heapSort at its loop (op "heapSort", with
\* its local last).
Frame(op, maxDepth, begin, end, last) ==
    [op |-> op, maxDepth |-> maxDepth, begin |-> begin, end |-> end, last |-> last]

NoCall == [op |-> "none"]

\* Map::takeNextObjectId
takeNextObjectId == nextObjectId

\* if (mMap && object->id() == 0) object->setId(mMap->takeNextObjectId());
AssignId(g, object) ==
    IF mMap[g] /\ objectId[object] = 0
    THEN /\ objectId' = [objectId EXCEPT ![object] = takeNextObjectId]
         /\ nextObjectId' = nextObjectId + 1
    ELSE UNCHANGED <<objectId, nextObjectId>>

\* The caller hands over an object that some ObjectGroup still holds.
StillHeld(object) ==
    \/ objectGroup[object] # NoGroup
    \/ \E g \in AllGroups : object \in Range(mObjects[g])

\* ObjectGroup::addObject
AddObject(g, object) ==
    /\ status = "idle"
    /\ mObjects' = [mObjects EXCEPT ![g] = Append(@, object)]
    /\ objectGroup' = [objectGroup EXCEPT ![object] = g]
    /\ AssignId(g, object)
    /\ misuse' = (misuse \/ StillHeld(object))
    /\ call' = [op |-> "addObject", group |-> g, object |-> object]
    /\ UNCHANGED <<debug, name, mMap, status, vec, stack, p, position,
                   mDrawOrder, text>>

\* ObjectGroup::sort, up to its call of introSort.
sortMaxDepth(list) == Log2Floor(Len(list)) * 2

\* ObjectGroup::insertObject, up to sort's call of introSort.
InsertObject(g, index, object) ==
    /\ status = "idle"
    /\ index >= 0 /\ index <= Len(mObjects[g])
    /\ LET list == InsertAt(mObjects[g], index, object)
       IN  /\ mObjects' = [mObjects EXCEPT ![g] = list]
           /\ vec' = list
           /\ stack' = <<Frame("introSort", sortMaxDepth(list), 0, Len(list), 0)>>
    /\ status' = "sorting"
    /\ misuse' = (misuse \/ StillHeld(object))
    /\ call' = [op |-> "insertObject", group |-> g, index |-> index,
                object |-> object]
    /\ UNCHANGED <<debug, name, mMap, nextObjectId, objectId, objectGroup, p,
                   position, mDrawOrder, text>>

\* The rest of insertObject, once introSort has returned to sort.
InsertObjectReturn ==
    /\ status = "sorting"
    /\ stack = <<>>
    /\ call.op = "insertObject"
    /\ mObjects' = [mObjects EXCEPT ![call.group] = vec]
    /\ objectGroup' = [objectGroup EXCEPT ![call.object] = call.group]
    /\ AssignId(call.group, call.object)
    /\ status' = "idle"
    /\ UNCHANGED <<debug, name, mMap, call, vec, stack, p, misuse, position,
                   mDrawOrder, text>>

SortFrame == status = "sorting" /\ stack # <<>>

UnchangedBySort ==
    UNCHANGED <<debug, name, mMap, nextObjectId, objectId, mObjects,
                objectGroup, call, misuse, position, mDrawOrder, text>>

\* introSort, n <= 1
IntroSortBase ==
    /\ SortFrame
    /\ Head(stack).op = "introSort"
    /\ Len(vec) <= 1
    /\ stack' = Tail(stack)
    /\ UNCHANGED <<status, vec, p>>
    /\ UnchangedBySort

\* introSort, n == 2
IntroSortPair ==
    /\ SortFrame
    /\ Head(stack).op = "introSort"
    /\ Len(vec) = 2
    /\ vec' = IF Compare(name[At(vec, 0)], name[At(vec, 1)]) >= 0
              THEN Put(Put(vec, 0, At(vec, 1)), 1, At(vec, 0))
              ELSE vec
    /\ stack' = Tail(stack)
    /\ UNCHANGED <<status, p>>
    /\ UnchangedBySort

\* introSort, maxDepth == 0: the call of heapSort.
IntroSortHeap ==
    /\ SortFrame
    /\ Head(stack).op = "introSort"
    /\ Len(vec) > 2
    /\ Head(stack).maxDepth = 0
    /\ stack' = <<Frame("heapSortCall", 0, Head(stack).begin, Head(stack).end, 0)>>
                \o Tail(stack)
    /\ UNCHANGED <<status, vec, p>>
    /\ UnchangedBySort

\* heapSort up to its loop: heapify, and last = end - 1.
HeapSortHeapify ==
    /\ SortFrame
    /\ Head(stack).op = "heapSortCall"
    /\ LET f == Head(stack)
           h == heapify(vec, f.begin, f.end)
       IN  /\ vec' = h.vec
           /\ status' = IF h.st = "ok" THEN status ELSE h.st
           /\ stack' = IF h.st = "ok"
                       THEN <<Frame("heapSort", 0, f.begin, f.end, f.end - 1)>>
                            \o Tail(stack)
                       ELSE stack
    /\ UNCHANGED p
    /\ UnchangedBySort

\* introSort's last branch: partition and the two calls it is followed by.
IntroSortPartition ==
    /\ SortFrame
    /\ Head(stack).op = "introSort"
    /\ Len(vec) > 2
    /\ Head(stack).maxDepth # 0
    /\ LET f == Head(stack)
       IN  \E r \in partition(vec, f.begin, f.end) :
               /\ status' = IF r.st = "ok" THEN status ELSE r.st
               /\ vec' = r.vec
               /\ p' = IF r.st = "ok" THEN r.p ELSE p
               /\ stack' = IF r.st = "ok"
                           THEN <<Frame("introSort", f.maxDepth - 1, f.begin, r.p, 0),
                                  Frame("introSort", f.maxDepth - 1, r.p + 1, f.end, 0)>>
                                \o Tail(stack)
                           ELSE stack
    /\ UnchangedBySort

\* Every way one iteration of heapSort's loop can end.  vec[begin] outside
\* the vector is treated as in partition; the store to it changes no
\* element.
heapSortBody(v, begin, end, last) ==
    LET after(temp) == siftDown(Store(Store(v, begin, At(v, last)), last, temp),
                                begin, end - 1)
    IN  IF InRange(v, begin) THEN {after(At(v, begin))}
        ELSE {[st |-> "crashed", vec |-> v]}
             \cup (IF debug THEN {} ELSE {after(junk) : junk \in Objects})

\* heapSort's loop: while (last > 0) { ... end--; siftDown(vec, begin, end); }
\* Nothing in the loop changes last.  siftDown returns at once for every
\* end <= 0, so end is followed down to -HeapUnderrun only and kept there;
\* its overflow after 2^31 iterations is not followed.
HeapSortLoop ==
    /\ SortFrame
    /\ Head(stack).op = "heapSort"
    /\ Head(stack).last > 0
    /\ LET f == Head(stack)
       IN  \E r \in heapSortBody(vec, f.begin, f.end, f.last) :
               /\ status' = IF r.st = "ok" THEN status ELSE r.st
               /\ vec' = r.vec
               /\ stack' = <<Frame("heapSort", 0, f.begin,
                                   IF f.end > -HeapUnderrun THEN f.end - 1 ELSE f.end,
                                   f.last)>>
                           \o Tail(stack)
    /\ UNCHANGED p
    /\ UnchangedBySort

\* heapSort returns: last > 0 is false.
HeapSortReturn ==
    /\ SortFrame
    /\ Head(stack).op = "heapSort"
    /\ ~(Head(stack).last > 0)
    /\ stack' = Tail(stack)
    /\ UNCHANGED <<status, vec, p>>
    /\ UnchangedBySort

SortStep ==
    \/ IntroSortBase
    \/ IntroSortPair
    \/ IntroSortHeap
    \/ IntroSortPartition
    \/ HeapSortHeapify
    \/ HeapSortLoop
    \/ HeapSortReturn

\* QList::indexOf: the first index of object, or -1.
RECURSIVE indexOfFrom(_, _, _)
indexOfFrom(list, object, i) ==
    IF ~(i < Len(list)) THEN -1
    ELSE IF At(list, i) = object THEN i
    ELSE indexOfFrom(list, object, i + 1)

indexOf(list, object) == indexOfFrom(list, object, 0)

\* QList::insert(i, x): prepends for i <= 0, appends for i >= size.
ListInsert(list, i, x) ==
    IF i <= 0 THEN <<x>> \o list
    ELSE IF i >= Len(list) THEN Append(list, x)
    ELSE InsertAt(list, i, x)

UnchangedByList ==
    UNCHANGED <<debug, name, mMap, nextObjectId, objectId, vec, stack, p,
                position, mDrawOrder, text>>

\* ObjectGroup::removeObject.  Q_ASSERT(index != -1) aborts a debug build;
\* without it QList::removeAt(-1) removes nothing and the object's group is
\* cleared all the same.
RemoveObject(g, object) ==
    /\ status = "idle"
    /\ LET index == indexOf(mObjects[g], object)
       IN  IF index = -1 /\ debug
           THEN /\ status' = "crashed"
                /\ UNCHANGED <<mObjects, objectGroup>>
           ELSE /\ status' = status
                /\ mObjects' = [mObjects EXCEPT
                                  ![g] = IF index = -1 THEN @ ELSE RemoveAt(@, index)]
                /\ objectGroup' = [objectGroup EXCEPT ![object] = NoGroup]
    /\ misuse' = (misuse \/ indexOf(mObjects[g], object) = -1)
    /\ call' = [op |-> "removeObject", group |-> g, object |-> object]
    /\ UnchangedByList

\* removeObjectAt without its object->setObjectGroup(nullptr).
RemoveObjectAtKeepingGroup(g, index) ==
    /\ status = "idle"
    /\ InRange(mObjects[g], index)
    /\ mObjects' = [mObjects EXCEPT ![g] = RemoveAt(@, index)]
    /\ call' = [op |-> "removeObjectAt", group |-> g, index |-> index]
    /\ UNCHANGED <<status, misuse, objectGroup>>
    /\ UnchangedByList

\* ObjectGroup::removeObjectAt, for the indexes QList::takeAt is defined on.
RemoveObjectAt(g, index) ==
    /\ status = "idle"
    /\ InRange(mObjects[g], index)
    /\ mObjects' = [mObjects EXCEPT ![g] = RemoveAt(@, index)]
    /\ objectGroup' = [objectGroup EXCEPT ![At(mObjects[g], index)] = NoGroup]
    /\ call' = [op |-> "removeObjectAt", group |-> g, index |-> index]
    /\ UNCHANGED <<status, misuse>>
    /\ UnchangedByList

\* moveObjects' loop: mObjects.insert(to + i, movingObjects.at(i)), i < count
RECURSIVE moveInsert(_, _, _, _, _)
moveInsert(list, movingObjects, to, i, count) ==
    IF ~(i < count) THEN list
    ELSE moveInsert(ListInsert(list, to + i, At(movingObjects, i)),
                    movingObjects, to, i + 1, count)

\* moveObjects without its "if (to > from) to -= count".
moveObjectsUnshifted(list, from, to, count) ==
    IF to = from \/ to = from + count \/ count = 0 THEN list
    ELSE LET movingObjects == SubSeq(list, from + 1, from + count)
             erased == SubSeq(list, 1, from) \o SubSeq(list, from + count + 1, Len(list))
         IN  moveInsert(erased, movingObjects, to, 0, count)

\* moveObjects past its Q_ASSERTs, for 0 <= count and from + count <= size.
moveObjects(list, from, to, count) ==
    IF to = from \/ to = from + count \/ count = 0 THEN list
    ELSE LET movingObjects == SubSeq(list, from + 1, from + count)
             erased == SubSeq(list, 1, from) \o SubSeq(list, from + count + 1, Len(list))
             to1 == IF to > from THEN to - count ELSE to
         IN  moveInsert(erased, movingObjects, to1, 0, count)

\* What moveObjects' two Q_ASSERTs require.
moveObjectsAsserts(from, to, count) ==
    count >= 0 /\ (to <= from \/ to >= from + count)

\* ObjectGroup::moveObjects.  A failed Q_ASSERT aborts a debug build.
\* Without Q_ASSERT a negative count that is not returned on at once hands
\* QList::erase a reversed range: undefined behaviour, after which the
\* program is followed no further ("undefined").
MoveObjects(g, from, to, count) ==
    /\ status = "idle"
    /\ from >= 0 /\ from <= Len(mObjects[g])
    /\ to >= 0 /\ to <= Len(mObjects[g])
    /\ from + count <= Len(mObjects[g])
    /\ IF debug /\ ~moveObjectsAsserts(from, to, count)
       THEN status' = "crashed" /\ UNCHANGED mObjects
       ELSE IF count < 0 /\ ~(to = from \/ to = from + count)
       THEN status' = "undefined" /\ UNCHANGED mObjects
       ELSE /\ status' = status
            /\ mObjects' = [mObjects EXCEPT ![g] = moveObjects(@, from, to, count)]
    /\ call' = [op |-> "moveObjects", group |-> g, from |-> from, to |-> to,
                count |-> count]
    /\ UNCHANGED <<objectGroup, misuse>>
    /\ UnchangedByList

\* The sequences of n different addresses of S.
RECURSIVE Fresh(_, _)
Fresh(S, n) ==
    IF n = 0 THEN {<<>>}
    ELSE UNION {{<<a>> \o t : t \in Fresh(S \ {a}, n - 1)} : a \in S}

\* mergedWith cloning the other group's objects before this group's.
mergedOriginalsOtherFirst(list, otherList) == otherList \o list

\* The objects mergedWith clones, in the order it adds the clones: clone()
\* takes this group's, the loop after it the other's.
mergedOriginals(list, otherList) == list \o otherList

\* ObjectGroup::mergedWith: clone() and initializeClone add a clone of every
\* object of this group to a new group, mergedWith then one of every object
\* of the other.  MapObject::clone gives a new object (any free address)
\* with the name and position of its original, no group and no id; the new
\* group has no map.
MergedWith(g, other) ==
    /\ status = "idle"
    /\ \A c \in Clones : ~StillHeld(c)
    /\ LET originals == mergedOriginals(mObjects[g], mObjects[other])
       IN  /\ Len(originals) <= MaxClones
           /\ \E clones \in Fresh(Clones, Len(originals)) :
                LET original(c) ==
                        originals[CHOOSE i \in 1..Len(clones) : clones[i] = c]
                IN  /\ mObjects' = [mObjects EXCEPT ![Merged] = clones]
                    /\ objectGroup' = [a \in Addresses |->
                          IF a \in Range(clones) THEN Merged ELSE objectGroup[a]]
                    /\ name' = [a \in Addresses |->
                          IF a \in Range(clones) THEN name[original(a)] ELSE name[a]]
                    /\ position' = [a \in Addresses |->
                          IF a \in Range(clones) THEN position[original(a)]
                          ELSE position[a]]
    /\ call' = [op |-> "mergedWith", group |-> g, other |-> other]
    /\ UNCHANGED <<debug, mMap, nextObjectId, objectId, status, vec, stack, p,
                   misuse, mDrawOrder, text>>

\* ---------------------------------------------------------- offsetObjects

\* A QPointF is <<x, y>>, a QRectF [x, y, w, h]; coordinates are integers.
Rect(x, y, w, h) == [x |-> x, y |-> y, w |-> w, h |-> h]

\* Every MapObject is 2 wide and 2 high: bounds() is the rectangle of that
\* size at position().
objectSize == <<2, 2>>

\* object->bounds().center()
center(pos) == <<pos[1] + objectSize[1] \div 2, pos[2] + objectSize[2] \div 2>>

\* QRectF::contains(QPointF): the edges belong to the rectangle, a rectangle
\* without width or without height contains nothing.
contains(r, pt) ==
    LET l == IF r.w < 0 THEN r.x + r.w ELSE r.x
        rr == IF r.w < 0 THEN r.x ELSE r.x + r.w
        t == IF r.h < 0 THEN r.y + r.h ELSE r.y
        b == IF r.h < 0 THEN r.y ELSE r.y + r.h
    IN  /\ l # rr
        /\ ~(pt[1] < l \/ pt[1] > rr)
        /\ t # b
        /\ ~(pt[2] < t \/ pt[2] > b)

\* std::fmod(a, b) on integers, b > 0: the remainder has the sign of a.
fmod(a, b) == a - b * CDiv(a, b)

\* wrap without its "n < 0 ? extent + n : n".
wrapTruncated(c, low, extent) == low + fmod(c - low, extent)

\* One coordinate of newCenter after the wrap.
wrap(c, low, extent) ==
    LET n == fmod(c - low, extent)
    IN  low + (IF n < 0 THEN extent + n ELSE n)

\* The body of offsetObjects' loop: the position the object is given.
offsetObject(pos, offset, bounds, wrapX, wrapY) ==
    LET objectCenter == center(pos)
        moved == <<objectCenter[1] + offset[1], objectCenter[2] + offset[2]>>
        newX == IF wrapX /\ bounds.w > 0 THEN wrap(moved[1], bounds.x, bounds.w)
                ELSE moved[1]
        newY == IF wrapY /\ bounds.h > 0 THEN wrap(moved[2], bounds.y, bounds.h)
                ELSE moved[2]
    IN  IF ~contains(bounds, objectCenter) THEN pos
        ELSE <<pos[1] + (newX - objectCenter[1]), pos[2] + (newY - objectCenter[2])>>

\* foreach (MapObject *object, mObjects), from index i.
RECURSIVE offsetFrom(_, _, _, _, _, _, _)
offsetFrom(pos, list, i, offset, bounds, wrapX, wrapY) ==
    IF ~(i < Len(list)) THEN pos
    ELSE offsetFrom([pos EXCEPT ![At(list, i)] =
                        offsetObject(@, offset, bounds, wrapX, wrapY)],
                    list, i + 1, offset, bounds, wrapX, wrapY)

\* ObjectGroup::offsetObjects
OffsetObjects(g, offset, bounds, wrapX, wrapY) ==
    /\ status = "idle"
    /\ position' = offsetFrom(position, mObjects[g], 0, offset, bounds, wrapX, wrapY)
    /\ call' = [op |-> "offsetObjects", group |-> g, offset |-> offset,
                bounds |-> bounds, wrapX |-> wrapX, wrapY |-> wrapY]
    /\ UNCHANGED <<debug, name, mMap, nextObjectId, objectId, mObjects,
                   objectGroup, status, vec, stack, p, misuse, mDrawOrder, text>>

\* ------------------------------------------------------- draw-order codec

\* QLatin1String("unknown"), ("topdown"), ("index")
unknown == <<117, 110, 107, 110, 111, 119, 110>>
topdown == <<116, 111, 112, 100, 111, 119, 110>>
index == <<105, 110, 100, 101, 120>>

\* The values a DrawOrder can hold: the three enumerators, and two values
\* that are none of them.
DrawOrders == {"UnknownOrder", "TopDownOrder", "IndexOrder", "Order2", "Order7"}

\* Tiled::drawOrderToString
drawOrderToString(drawOrder) ==
    CASE drawOrder = "TopDownOrder" -> topdown
      [] drawOrder = "IndexOrder" -> index
      [] drawOrder = "UnknownOrder" -> unknown
      [] OTHER -> unknown

\* string in capital letters, and with a capital first letter.
ToUpper(string) ==
    [i \in 1..Len(string) |->
        IF string[i] >= 97 /\ string[i] <= 122 THEN string[i] - 32 ELSE string[i]]

Capitalize(string) ==
    [i \in 1..Len(string) |-> IF i = 1 THEN ToUpper(string)[i] ELSE string[i]]

\* drawOrderFromString comparing without regard to case.
drawOrderFromStringAnyCase(string) ==
    IF ToUpper(string) = ToUpper(topdown) THEN "TopDownOrder"
    ELSE IF ToUpper(string) = ToUpper(index) THEN "IndexOrder"
    ELSE "UnknownOrder"

\* Tiled::drawOrderFromString
drawOrderFromString(string) ==
    IF string = topdown THEN "TopDownOrder"
    ELSE IF string = index THEN "IndexOrder"
    ELSE "UnknownOrder"

DrawOrderToString ==
    /\ text' = drawOrderToString(mDrawOrder)
    /\ call' = [op |-> "drawOrderToString", drawOrder |-> mDrawOrder,
                after |-> call.op]
    /\ UNCHANGED <<debug, name, mMap, nextObjectId, objectId, mObjects,
                   objectGroup, status, vec, stack, p, misuse, position,
                   mDrawOrder>>

DrawOrderFromString ==
    /\ mDrawOrder' = drawOrderFromString(text)
    /\ call' = [op |-> "drawOrderFromString", string |-> text, after |-> call.op]
    /\ UNCHANGED <<debug, name, mMap, nextObjectId, objectId, mObjects,
                   objectGroup, status, vec, stack, p, misuse, position, text>>

\* ------------------------------------------------------------ the program

Origin == <<0, 0>>
NoSort == <<>>

\* A state of the program between two calls, or inside a call of sort: the
\* first group holds start.list, its objects added one by one, and sort has
\* the calls start.stack pending on a copy of that list.  The first group is
\* in a map when inMap; the caller's objects (used) have names of names and
\* positions of points; debug, mDrawOrder and text are any.
Start(inMap, used, names, points, starts, orders, strings) ==
    /\ debug \in BOOLEAN
    /\ name \in {[a \in Addresses |-> IF a \in used THEN n[a] ELSE <<>>] :
                    n \in [used -> names]}
    /\ position \in {[a \in Addresses |-> IF a \in used THEN q[a] ELSE Origin] :
                        q \in [used -> points]}
    /\ mMap = [g \in AllGroups |-> inMap /\ g = "g1"]
    /\ \E start \in starts :
          /\ mObjects = [g \in AllGroups |-> IF g = "g1" THEN start.list ELSE <<>>]
          /\ objectGroup = [a \in Addresses |->
                              IF a \in Range(start.list) THEN "g1" ELSE NoGroup]
          /\ objectId = [a \in Addresses |->
                           IF inMap /\ a \in Range(start.list)
                           THEN 1 + indexOf(start.list, a) ELSE 0]
          /\ nextObjectId = IF inMap THEN Len(start.list) + 1 ELSE 1
          /\ stack = start.stack
          /\ vec = IF start.stack = NoSort THEN <<>> ELSE start.list
          /\ status = IF start.stack = NoSort THEN "idle" ELSE "sorting"
    /\ call = NoCall
    /\ p = 0
    /\ misuse = FALSE
    /\ mDrawOrder \in orders
    /\ text \in strings

\* After construction: nothing is in a group.
Empty == {[list |-> <<>>, stack |-> NoSort]}

Shared == 1..MaxShared

Init == Start(FALSE, Shared, ShortNames, {Origin}, Empty, {"TopDownOrder"}, {<<>>})

\* A caller adding, inserting and removing objects in two groups.  A run is
\* followed up to the first call that breaks the ownership contract.
Next ==
    \/ \E g \in Groups, object \in Shared : ~misuse /\ AddObject(g, object)
    \/ \E g \in Groups, object \in Shared, i \in 0..MaxShared :
          ~misuse /\ InsertObject(g, i, object)
    \/ SortStep
    \/ InsertObjectReturn
    \/ \E g \in Groups, object \in Shared : ~misuse /\ RemoveObject(g, object)
    \/ \E g \in Groups, i \in 0..MaxShared : ~misuse /\ RemoveObjectAt(g, i)

Spec == Init /\ [][Next]_vars

\* A caller filling one group of a map with objects no group holds, by
\* addObject and insertObject.
InsertInit ==
    Start(TRUE, Objects, NameSet, {Origin}, Empty, {"TopDownOrder"}, {<<>>})

InsertNext ==
    \/ \E object \in Objects : ~StillHeld(object) /\ AddObject("g1", object)
    \/ \E object \in Objects, i \in 0..MaxObjects :
          ~StillHeld(object) /\ InsertObject("g1", i, object)
    \/ SortStep
    \/ InsertObjectReturn

InsertSpec == InsertInit /\ [][InsertNext]_vars

\* The program keeps running while a call of sort has a step to take.
FairInsertSpec == InsertSpec /\ WF_vars(SortStep) /\ WF_vars(InsertObjectReturn)

\* The lists of different objects of S.
Lists(S) == UNION {Fresh(S, n) : n \in 0..Cardinality(S)}

\* heapSort called on any range of any list.
HeapInit ==
    Start(FALSE, Objects, NameSet, {Origin},
          {[list |-> l, stack |-> <<Frame("heapSortCall", 0, b, e, 0)>>] :
              <<l, b, e>> \in {x \in Lists(Objects) \X (0..MaxObjects) \X (0..MaxObjects) :
                                  x[2] <= x[3] /\ x[3] <= Len(x[1])}},
          {"TopDownOrder"}, {<<>>})

HeapNext ==
    \/ HeapSortHeapify
    \/ HeapSortLoop
    \/ HeapSortReturn

HeapSpec == HeapInit /\ [][HeapNext]_vars

\* partition called by introSort on any range of any list of three objects
\* or more.
PartitionInit ==
    Start(FALSE, Objects, NameSet, {Origin},
          {[list |-> l, stack |-> <<Frame("introSort", 1, b, e, 0)>>] :
              <<l, b, e>> \in {x \in Lists(Objects) \X (0..MaxObjects) \X (0..MaxObjects) :
                                  Len(x[1]) > 2 /\ x[2] < x[3] /\ x[3] <= Len(x[1])}},
          {"TopDownOrder"}, {<<>>})

PartitionNext == IntroSortPartition

PartitionSpec == PartitionInit /\ [][PartitionNext]_vars

\* A caller filling one group and moving ranges of it.
MoveInit ==
    Start(FALSE, Objects, {<<97>>}, {Origin}, Empty, {"TopDownOrder"}, {<<>>})

MoveNext ==
    \/ \E object \in Objects : ~StillHeld(object) /\ AddObject("g1", object)
    \/ \E from \in 0..MaxObjects, to \in 0..MaxObjects, count \in -1..MaxObjects :
          MoveObjects("g1", from, to, count)

MoveSpec == MoveInit /\ [][MoveNext]_vars

\* A caller filling two groups and then merging two of them, once.
MergeInit ==
    Start(FALSE, Objects, ShortNames, {Origin}, Empty, {"TopDownOrder"}, {<<>>})

MergeNext ==
    \/ \E g \in Groups, object \in Objects :
          /\ call.op # "mergedWith"
          /\ ~StillHeld(object)
          /\ AddObject(g, object)
    \/ \E g \in Groups, other \in Groups : MergedWith(g, other)

MergeSpec == MergeInit /\ [][MergeNext]_vars

\* The positions the objects of OffsetSpec start from.
Points == {<<8, 8>>, <<-1, -1>>, <<9, 3>>, <<1, 12>>, <<-2, 4>>}
\* The offsets and the bounds offsetObjects is called with.
Offsets == {<<5, 5>>, <<-5, -12>>, <<0, 21>>, <<-23, 0>>, <<1, -1>>}
BoundsSet == {Rect(0, 0, 10, 10), Rect(-2, 3, 4, 0), Rect(2, 12, 8, -10)}

\* One call of offsetObjects on a group that holds all objects but the last.
OffsetInit ==
    Start(FALSE, Objects, {<<97>>}, Points,
          {[list |-> [i \in 1..(MaxObjects - 1) |-> i], stack |-> NoSort]},
          {"TopDownOrder"}, {<<>>})

OffsetNext ==
    \E offset \in Offsets, bounds \in BoundsSet, wrapX \in BOOLEAN, wrapY \in BOOLEAN :
        /\ call = NoCall
        /\ OffsetObjects("g1", offset, bounds, wrapX, wrapY)

OffsetSpec == OffsetInit /\ [][OffsetNext]_vars

\* The strings the codec is given: the three names, what they begin with,
\* their spellings in other case or with a blank, and another word.
garbage == <<103, 97, 114, 98, 97, 103, 101>>
Strings ==
    UNION {{SubSeq(b, 1, k) : k \in 0..Len(b)}
           \cup {ToUpper(b), Capitalize(b), b \o <<32>>, <<32>> \o b} :
              b \in {unknown, topdown, index}}
    \cup {garbage}

CodecInit ==
    Start(FALSE, {}, {<<>>}, {Origin}, Empty, DrawOrders, Strings)

CodecNext ==
    \/ DrawOrderToString
    \/ DrawOrderFromString

CodecSpec == CodecInit /\ [][CodecNext]_vars

\* ------------------------------------------------------------- properties

\* list is non-decreasing by case-insensitive name.
SortedByName(list) ==
    \A i \in 1..(Len(list) - 1) : Compare(name[list[i]], name[list[i + 1]]) <= 0

\* The objects of list, each with the number of times list holds it.
Multiset(list) ==
    [a \in Addresses |-> Cardinality({i \in 1..Len(list) : list[i] = a})]

\* -------------------------------------------------------- insert and sort

\* C1: every insertObject that is called returns, and when it has returned
\* the group's list is non-decreasing by case-insensitive name, whatever
\* the number of objects and their names.
InsertSorts ==
    [](status = "sorting" =>
          <>(status = "idle" /\ SortedByName(mObjects["g1"])))

\* C2: at every step of the sort run by insertObject the vector being sorted
\* holds the objects of the list that was handed to sort, each as many times
\* as the list does: none lost, none twice, none new.
SortIsRearrangement ==
    status = "sorting" => Multiset(vec) = Multiset(mObjects[call.group])

\* C3: the sort started by insertObject comes to its end: whenever a call of
\* sort is running, later none is, and it has neither aborted nor run into
\* undefined behaviour.
InsertTerminates == (status = "sorting") ~> (status = "idle")

\* ------------------------------------------------------------- heapSort

\* [begin, end) of v is a max-heap by name, the children of the node at
\* base + k being at base + 2k + 1 and base + 2k + 2.
MaxHeap(v, begin, end, base) ==
    \A i \in begin..(end - 1) : \A c \in {2 * (i - base) + 1 + base, 2 * (i - base) + 2 + base} :
        (c >= begin /\ c < end) => Compare(name[At(v, i)], name[At(v, c)]) >= 0

\* [begin, end) of v is non-decreasing by name.
SortedRange(v, begin, end) ==
    \A i \in begin..(end - 2) : Compare(name[At(v, i)], name[At(v, i + 1)]) <= 0

\* v and w have the same length and the same elements outside [begin, end).
SameOutside(v, w, begin, end) ==
    /\ Len(v) = Len(w)
    /\ \A i \in 0..(Len(v) - 1) : (i < begin \/ i >= end) => At(v, i) = At(w, i)

\* C9: heapSort(vec, begin, end) has a max-heap by name in [begin, end) when
\* heapify is done, and when it returns [begin, end) holds the objects it
\* held, non-decreasing by name, and nothing else of the vector has changed.
HeapSortSorts ==
    [][
        /\ (Head(stack).op = "heapSortCall" /\ status' = "sorting") =>
             LET f == Head(stack)
             IN  \/ MaxHeap(vec', f.begin, f.end, f.begin)
                 \/ MaxHeap(vec', f.begin, f.end, 0)
        /\ (Head(stack).op = "heapSort" /\ stack' = Tail(stack)) =>
             LET h == Head(stack)
                 input == mObjects["g1"]
             IN  /\ SortedRange(vec', h.begin, h.last + 1)
                 /\ Multiset(vec') = Multiset(input)
                 /\ SameOutside(vec', input, h.begin, h.last + 1)
    ]_vars

\* ------------------------------------------------------------ partition

\* C10: partition(vec, begin, end) with 0 <= begin < end <= size keeps the
\* length of the vector and every element before begin and from end on, and
\* returns p with begin <= p < end, the elements of [begin, p) being no
\* greater by name than vec[p] and those of [p + 1, end) greater.
PartitionFrame ==
    [][stack' # stack =>
          LET f == Head(stack)
          IN  /\ SameOutside(vec', vec, f.begin, f.end)
              /\ f.begin <= p' /\ p' < f.end
              /\ \A i \in f.begin..(p' - 1) :
                    Compare(name[At(vec', i)], name[At(vec', p')]) <= 0
              /\ \A i \in (p' + 1)..(f.end - 1) :
                    Compare(name[At(vec', i)], name[At(vec', p')]) > 0]_vars

\* ------------------------------------------------------------ ownership

\* An object's group is g exactly when g's list holds the object, and no
\* list holds an object twice: so no object is in, or points to, two groups.
Ownership ==
    /\ \A g \in AllGroups, a \in Addresses :
          (objectGroup[a] = g) <=> (a \in Range(mObjects[g]))
    /\ \A g \in AllGroups : Cardinality(Range(mObjects[g])) = Len(mObjects[g])

Without(list, from, count) ==
    SubSeq(list, 1, from) \o SubSeq(list, from + count + 1, Len(list))

\* after is before with the count objects at from moved to where to points:
\* they follow each other in the order they had, at the index to itself when
\* to <= from and count places before it otherwise, and the other objects
\* are in the order they were.
Moved(before, after, from, to, count) ==
    LET dest == IF to > from THEN to - count ELSE to
    IN  /\ Multiset(after) = Multiset(before)
        /\ SubSeq(after, dest + 1, dest + count) = SubSeq(before, from + 1, from + count)
        /\ Without(after, dest, count) = Without(before, from, count)

\* What the call of moveObjects that led to the next state did right: a call
\* with count >= 0 and to outside (from, from + count) moved the range; a
\* call with to = from, to = from + count or count = 0 changed nothing.
MovedOrKept ==
    LET c == call'
        before == mObjects[c.group]
        after == mObjects'[c.group]
    IN  /\ moveObjectsAsserts(c.from, c.to, c.count) =>
              /\ status' = "idle"
              /\ Moved(before, after, c.from, c.to, c.count)
        /\ (c.to = c.from \/ c.to = c.from + c.count \/ c.count = 0) =>
              after = before

\* The call of moveObjects that led to the next state was rejected: the
\* program aborted with the list as it was.
Rejected ==
    /\ status' = "crashed"
    /\ mObjects' = mObjects

CloneOf(c, o) == c # o /\ name'[c] = name[o] /\ position'[c] = position[o]

\* C6: mergedWith gives a new group of as many objects as this group and
\* the other hold together: clones of this group's objects in their order,
\* then clones of the other's in theirs, none of them an object of the two
\* groups, all with the new group as their group; the two groups keep their
\* lists and their objects their group.
MergedWithClones ==
    [][call'.op = "mergedWith" =>
          LET A == mObjects[call'.group]
              B == mObjects[call'.other]
              M == mObjects'[Merged]
          IN  /\ Len(M) = Len(A) + Len(B)
              /\ \A i \in 1..Len(A) : CloneOf(M[i], A[i])
              /\ \A j \in 1..Len(B) : CloneOf(M[Len(A) + j], B[j])
              /\ Range(M) \cap (Range(A) \cup Range(B)) = {}
              /\ Cardinality(Range(M)) = Len(M)
              /\ \A c \in Range(M) : objectGroup'[c] = Merged
              /\ \A g \in Groups : mObjects'[g] = mObjects[g]
              /\ \A a \in Objects : objectGroup'[a] = objectGroup[a]]_vars

\* A group of two objects was merged with a group of one of another name.
MergedWithWitness ==
    /\ call.op = "mergedWith"
    /\ call.group # call.other
    /\ Len(mObjects[call.group]) = 2 /\ Len(mObjects[call.other]) = 1
    /\ Len(mObjects[Merged]) = 3
    /\ name[mObjects[Merged][3]] # name[mObjects[Merged][1]]

\* --------------------------------------------------------- offsetObjects

\* pt lies in the rectangle r, its edges included; a rectangle without
\* width or height has no points.
Within(r, pt) ==
    LET xs == {r.x, r.x + r.w}
        ys == {r.y, r.y + r.h}
    IN  /\ r.w # 0 /\ r.h # 0
        /\ \E a \in xs, b \in xs : a <= pt[1] /\ pt[1] <= b
        /\ \E a \in ys, b \in ys : a <= pt[2] /\ pt[2] <= b

\* What one coordinate of a center becomes: with the wrap, low plus the
\* floored remainder of its distance from low, which lies in
\* [low, low + extent); without, the coordinate moved by delta.
Wrapped(new, old, delta, low, extent, wrapped) ==
    IF wrapped /\ extent > 0
    THEN /\ new = low + ((old + delta - low) % extent)
         /\ low <= new /\ new < low + extent
    ELSE new = old + delta

CodecRoundTrip ==
    [][
        /\ (call'.op = "drawOrderFromString" /\ call.op = "drawOrderToString"
            /\ call.drawOrder \in {"TopDownOrder", "IndexOrder"}) =>
              mDrawOrder' = call.drawOrder
        /\ (call'.op = "drawOrderToString"
            /\ mDrawOrder \notin {"TopDownOrder", "IndexOrder"}) =>
              text' = unknown
        /\ (call'.op = "drawOrderFromString" /\ text \notin {topdown, index}) =>
              mDrawOrder' = "UnknownOrder"
        /\ (call'.op = "drawOrderToString" /\ call.op = "drawOrderFromString"
            /\ call.string \notin {topdown, index}) =>
              text' = unknown
    ]_vars

\* IndexOrder was made a string and the string IndexOrder again.
CodecRoundTripWitness ==
    /\ call.op = "drawOrderFromString"
    /\ call.after = "drawOrderToString"
    /\ call.string = index
    /\ mDrawOrder = "IndexOrder"

=============================================================================
